---- MODULE Spec2Model ----
(***************************************************************************)
(* Model of src/counter.go (current variant, lines 156-355): the lazy      *)
(* worker pool (URLGenerator, controller, HiringManager, Analyst, Worker)  *)
(* and the streaming substring counter StreamEntranceCount.                *)
(*                                                                         *)
(* Bytes are modelled as their integer values.  Channels are sequences     *)
(* (getDownToWork carries unit tokens, so it is a counter).                *)
(* sync.WaitGroup is modelled by its counter and its waiter: Wait returns  *)
(* at once when the counter is 0, otherwise the caller sleeps until the    *)
(* Done that brings the counter to 0 releases it, and on waking it checks  *)
(* that the state is still 0 and panics otherwise ("sync: WaitGroup is     *)
(* reused before previous Wait has returned").                             *)
(***************************************************************************)
EXTENDS Integers, Sequences, FiniteSets, TLC

\* ------------------------------------------------------------------ bounds
MaxK == 3            \* largest -k (maxNumberOfWorker) explored, 0 included
MaxTasks == 2        \* largest number of input lines explored
MaxLongK == 2        \* largest -k explored with a long input
MaxLongTasks == 3    \* largest number of input lines of a long input
LinksCap == 2        \* buffer of the links channel (100 in the source), scaled
MaxContentLen == 3   \* longest stream content explored by the matcher
MaxWordLen == 3      \* longest desiredWord explored by the matcher
MaxBuffSize == 2     \* largest StreamSearcherBuffSize explored
MaxIdleReads == 0    \* reads returning (0, nil) allowed per stream

\* ------------------------------------------------------------ byte strings
NUL == 0
Dash == 45
UpA == 65
LowA == 97
UpG == 71
LowG == 103
LowO == 111

Bytes == {NUL, Dash, UpA, LowA}

RECURSIVE SeqsUpTo(_, _)
SeqsUpTo(S, n) ==
    IF n = 0 THEN {<<>>}
    ELSE LET shorter == SeqsUpTo(S, n - 1)
         IN  shorter \cup {Append(s, x) : s \in {t \in shorter : Len(t) = n - 1}, x \in S}

\* unicode.ToTitle on ASCII
ToTitle(r) == IF r >= 97 /\ r <= 122 THEN r - 32 ELSE r

\* strings.isSeparator on ASCII: alphanumerics and underscore are not separators
isSeparator(r) ==
    ~ \/ (r >= 48 /\ r <= 57)
      \/ (r >= 97 /\ r <= 122)
      \/ (r >= 65 /\ r <= 90)
      \/ r = 95

\* strings.Title: the first letter of every word is mapped to title case
Title(s) ==
    [i \in 1..Len(s) |->
        IF (IF i = 1 THEN TRUE ELSE isSeparator(s[i - 1]))
        THEN ToTitle(s[i]) ELSE s[i]]

HasPrefixAt(s, i, sep) ==
    /\ i + Len(sep) - 1 <= Len(s)
    /\ \A j \in 1..Len(sep) : s[i + j - 1] = sep[j]

\* bytes.Count / strings.Count: number of non-overlapping instances of sep in s
RECURSIVE CountFrom(_, _, _)
CountFrom(s, i, sep) ==
    IF i + Len(sep) - 1 > Len(s) THEN 0
    ELSE IF HasPrefixAt(s, i, sep) THEN 1 + CountFrom(s, i + Len(sep), sep)
    ELSE CountFrom(s, i + 1, sep)

Count(s, sep) == IF Len(sep) = 0 THEN Len(s) + 1 ELSE CountFrom(s, 1, sep)

\* ------------------------------------------------------------------ reader
\* A reader is the content plus the script of its Read results: each entry is
\* the number of bytes delivered and the error returned with them.
NoErr == "nil"
EOF == "EOF"
IOErr == "unexpected"

RECURSIVE SumN(_)
SumN(script) == IF script = <<>> THEN 0 ELSE Head(script).n + SumN(Tail(script))

\* One Read into a destination of capacity cap with left bytes remaining.
ReadResults(cap, left) ==
    {[n |-> k, err |-> e] : k \in 0..(IF cap < left THEN cap ELSE left), e \in {NoErr, EOF, IOErr}}

\* Scripts an io.Reader over a content of which left bytes remain can produce
\* when every destination has capacity cap: reads return NoErr until one
\* returns an error; EOF is returned only when all the content has been
\* delivered.  idle bounds the reads that deliver nothing and no error.
RECURSIVE Scripts(_, _, _)
Scripts(cap, left, idle) ==
    LET last == {<<r>> : r \in {q \in ReadResults(cap, left) :
                                  /\ q.err # NoErr
                                  /\ (q.err = EOF => q.n = left)}}
        more == UNION {{<<r>> \o t : t \in Scripts(cap, left - r.n,
                                                   IF r.n = 0 THEN idle - 1 ELSE idle)} :
                          r \in {q \in ReadResults(cap, left) :
                                   /\ q.err = NoErr
                                   /\ (q.n = 0 => idle > 0)}}
    IN  last \cup more

\* ---------------------------------------------------- StreamEntranceCount
Zeros(n) == [i \in 1..n |-> NUL]

\* source.Read(buf[len(desiredBytes)-1:]) delivering source[pos+1 .. pos+n]
ReadInto(buf, L, source, pos, n) ==
    [i \in 1..Len(buf) |->
        IF i >= L /\ i <= L - 1 + n THEN source[pos + (i - (L - 1))] ELSE buf[i]]

\* copy(buf[:len(desiredBytes)-1], buf[n:])
CopyTail(buf, L, n) ==
    [i \in 1..Len(buf) |-> IF i <= L - 1 THEN buf[n + i] ELSE buf[i]]

RECURSIVE StreamLoop(_, _, _, _, _, _, _)
StreamLoop(buf, source, pos, reads, desiredBytes, desiredBytesTitle, counted) ==
    LET L == Len(desiredBytes)
        r == Head(reads)
        n == r.n
        buf1 == ReadInto(buf, L, source, pos, n)
        window == SubSeq(buf1, 1, L - 1 + n)
        counted1 == IF n > 0
                    THEN counted + Count(window, desiredBytes) + Count(window, desiredBytesTitle)
                    ELSE counted
    IN  IF r.err # NoErr
        THEN [amount |-> counted1, err |-> (r.err # EOF)]
        ELSE StreamLoop(CopyTail(buf1, L, n), source, pos + n, Tail(reads),
                        desiredBytes, desiredBytesTitle, counted1)

\* StreamEntranceCount(source, desiredWord) with StreamSearcherBuffSize = size:
\* source is the content the reader delivers, reads the script it follows, word
\* the desiredWord and counted the amount found so far.
StreamEntranceCount(source, reads, word, size) ==
    StreamLoop(Zeros(size + Len(word) - 1), source, 0, reads,
               word, Title(word), 0)

\* EntranceCount(source, desiredWord): io.Copy of the whole source, then Count
EntranceCount(source, reads, word) ==
    IF reads[Len(reads)].err = IOErr
    THEN [amount |-> 0, err |-> TRUE]
    ELSE [amount |-> Count(source, word) + Count(source, Title(word)),
          err |-> FALSE]

\* ============================================================ worker pool
\* var StreamSearcherBuffSize, at the value TestStreamEntranceCount assigns to it
\* (the bodies modelled below are shorter than either value)
StreamSearcherBuffSize == 10

\* -q default: "go"
neededWord == <<LowG, LowO>>

\* What the web answers for a URL: httpClient.Get fails, or it returns a body
\* (content and the script of its reads).
RespFail == [fetchErr |-> TRUE, content |-> <<>>, script |-> <<>>]
RespGo ==
    [fetchErr |-> FALSE, content |-> <<LowG, LowO>>,
     script |-> <<[n |-> 2, err |-> NoErr], [n |-> 0, err |-> EOF]>>]
RespGoGo ==
    [fetchErr |-> FALSE, content |-> <<UpG, LowO, Dash, LowG, LowO>>,
     script |-> <<[n |-> 3, err |-> NoErr], [n |-> 2, err |-> EOF]>>]
RespBroken ==
    [fetchErr |-> FALSE, content |-> <<LowG, LowO, Dash>>,
     script |-> <<[n |-> 2, err |-> NoErr], [n |-> 0, err |-> IOErr]>>]
Responses == {RespFail, RespGo, RespGoGo, RespBroken}

\* pc.searchStrategy(resp.Body, pc.neededWord), searchStrategy = StreamEntranceCount
searchStrategy ==
    [r \in Responses \ {RespFail} |->
        StreamEntranceCount(r.content, r.script, neededWord, StreamSearcherBuffSize)]

WorkerIds == 1..(MaxK + 1)

VARIABLES
    process,                  \* "running", "fatal" (log.Fatal), "panic", "exited"
    pcMain,                   \* position of main / UploadAndProcess
    maxNumberOfWorker,        \* -k
    lines,                    \* number of lines of the input; line i is URL i
    web,                      \* URL -> response
    scanned,                  \* lines URLGenerator has sent
    links, linksClosed,       \* sourceOfTasks
    getDownToWork, getDownToWorkCap, getDownToWorkClosed, getDownToWorkCloses,
    statistics, statisticsCap, statisticsClosed, statisticsCloses,
    availableNumberOfWorker,
    workerWG, staffWG,
    pcHiringManager,          \* "idle", "range", "check", "done"
    pcAnalyst,                \* "idle", "range", "done"
    count,                    \* Analyst's running count
    totals,                   \* the "Total: " lines printed
    spawned,                  \* Workers started by go pc.Worker()
    pcWorker, URL, amount,    \* per Worker: position, current task, count
    received,                 \* URL -> number of times a Worker received it
    sent,                     \* every ResultRecord sent on statistics, in order
    \* streaming matcher under test
    content, script, desiredWord, buffSize, streamResult, wholeResult

poolVars ==
    <<process, pcMain, maxNumberOfWorker, lines, web, scanned, links, linksClosed,
      getDownToWork, getDownToWorkCap, getDownToWorkClosed, getDownToWorkCloses,
      statistics, statisticsCap, statisticsClosed, statisticsCloses,
      availableNumberOfWorker, workerWG, staffWG, pcHiringManager, pcAnalyst,
      count, totals, spawned, pcWorker, URL, amount, received, sent>>
matcherVars == <<content, script, desiredWord, buffSize, streamResult, wholeResult>>
vars == <<poolVars, matcherVars>>

chanVars ==
    <<getDownToWork, getDownToWorkCap, getDownToWorkClosed, getDownToWorkCloses,
      statistics, statisticsCap, statisticsClosed, statisticsCloses>>
genVars == <<scanned, links, linksClosed>>
inputVars == <<maxNumberOfWorker, lines, web>>
workerVars == <<pcWorker, URL, amount, received, sent>>
analystVars == <<pcAnalyst, count, totals>>

NoResult == [amount |-> 0, err |-> FALSE, called |-> FALSE]

MatcherIdle ==
    /\ content = <<>>
    /\ script = <<>>
    /\ desiredWord = <<>>
    /\ buffSize = 0
    /\ streamResult = NoResult
    /\ wholeResult = NoResult

\* main up to the call of NewController: the flags are parsed and
\* URLGenerator(os.Stdin) has started its goroutine.  caps, lengths and
\* responses are the values of -k, the input lengths and the answers of the
\* web that are explored.
PoolStart(caps, lengths, responses) ==
    /\ process = "running"
    /\ pcMain = "NewController"
    /\ maxNumberOfWorker \in caps
    /\ lines \in lengths
    /\ web \in [1..lines -> responses]
    /\ scanned = 0
    /\ links = <<>>
    /\ linksClosed = FALSE
    /\ getDownToWork = 0
    /\ getDownToWorkCap = 0
    /\ getDownToWorkClosed = FALSE
    /\ getDownToWorkCloses = 0
    /\ statistics = <<>>
    /\ statisticsCap = 0
    /\ statisticsClosed = FALSE
    /\ statisticsCloses = 0
    /\ availableNumberOfWorker = 0
    /\ workerWG = 0
    /\ staffWG = 0
    /\ pcHiringManager = "idle"
    /\ pcAnalyst = "idle"
    /\ count = 0
    /\ totals = <<>>
    /\ spawned = 0
    /\ pcWorker = [w \in WorkerIds |-> "idle"]
    /\ URL = [w \in WorkerIds |-> 0]
    /\ amount = [w \in WorkerIds |-> 0]
    /\ received = [u \in 1..lines |-> 0]
    /\ sent = <<>>

PoolInit == PoolStart(0..MaxK, 0..MaxTasks, Responses)

Init == PoolInit /\ MatcherIdle

Running == process = "running"

\* ---------------------------------------------------------- URLGenerator
\* links <- scanner.Text(): the channel is a queue
EnqueueInFront(ch, line) == <<line>> \o ch

Enqueue(ch, line) == Append(ch, line)

\* for scanner.Scan() { links <- scanner.Text() }
URLGeneratorSend ==
    /\ Running
    /\ ~linksClosed
    /\ scanned < lines
    /\ Len(links) < LinksCap
    /\ links' = Enqueue(links, scanned + 1)
    /\ scanned' = scanned + 1
    /\ UNCHANGED <<process, pcMain, inputVars, linksClosed, chanVars,
                   availableNumberOfWorker, workerWG, staffWG, pcHiringManager,
                   analystVars, spawned, workerVars, matcherVars>>

\* defer close(links)
URLGeneratorClose ==
    /\ Running
    /\ ~linksClosed
    /\ scanned = lines
    /\ linksClosed' = TRUE
    /\ UNCHANGED <<process, pcMain, inputVars, scanned, links, chanVars,
                   availableNumberOfWorker, workerWG, staffWG, pcHiringManager,
                   analystVars, spawned, workerVars, matcherVars>>

\* ----------------------------------------------------------- NewController
NewControllerAvailableNoInitial(max) == max

NewControllerAvailable(max) == max - 1

\* if maxNumberOfWorker < 1 { return nil, errors.New(...) }
InvalidMaxBelowZero(max) == max < 0

InvalidMax(max) == max < 1

NewController ==
    /\ Running
    /\ pcMain = "NewController"
    /\ IF InvalidMax(maxNumberOfWorker)
       THEN /\ process' = "fatal"
            /\ UNCHANGED <<pcMain, getDownToWorkCap, statisticsCap, availableNumberOfWorker>>
       ELSE /\ getDownToWorkCap' = maxNumberOfWorker + 1
            /\ statisticsCap' = maxNumberOfWorker + 1
            /\ availableNumberOfWorker' = NewControllerAvailable(maxNumberOfWorker)
            /\ pcMain' = "L248"
            /\ UNCHANGED process
    /\ UNCHANGED <<inputVars, genVars, getDownToWork, getDownToWorkClosed,
                   getDownToWorkCloses, statistics, statisticsClosed, statisticsCloses,
                   workerWG, staffWG, pcHiringManager, analystVars, spawned,
                   workerVars, matcherVars>>

\* -------------------------------------------------------- UploadAndProcess
\* pc.staffWG.Add(1); go pc.HiringManager()
StartHiringManager ==
    /\ Running
    /\ pcMain = "L248"
    /\ staffWG' = staffWG + 1
    /\ pcHiringManager' = "range"
    /\ pcMain' = "L251"
    /\ UNCHANGED <<process, inputVars, genVars, chanVars, availableNumberOfWorker,
                   workerWG, analystVars, spawned, workerVars, matcherVars>>

\* pc.staffWG.Add(1); go pc.Analyst()
StartAnalyst ==
    /\ Running
    /\ pcMain = "L251"
    /\ staffWG' = staffWG + 1
    /\ pcAnalyst' = "range"
    /\ pcMain' = "L254"
    /\ UNCHANGED <<process, inputVars, genVars, chanVars, availableNumberOfWorker,
                   workerWG, pcHiringManager, count, totals, spawned, workerVars,
                   matcherVars>>

\* go pc.Worker(): the next Worker starts at its range loop
Spawn(pcs, n) == [pcs EXCEPT ![n + 1] = "range"]

\* pc.workerWG.Add(1); go pc.Worker()
StartWorker ==
    /\ Running
    /\ pcMain = "L254"
    /\ workerWG' = workerWG + 1
    /\ pcWorker' = Spawn(pcWorker, spawned)
    /\ spawned' = spawned + 1
    /\ pcMain' = "L257"
    /\ UNCHANGED <<process, inputVars, genVars, chanVars, availableNumberOfWorker,
                   staffWG, pcHiringManager, analystVars, URL, amount, received,
                   sent, matcherVars>>

\* pc.workerWG.Wait(): returns at once on a zero counter, sleeps otherwise
WorkerWait ==
    /\ Running
    /\ pcMain = "L257"
    /\ pcMain' = IF workerWG = 0 THEN "L259" ELSE "asleep257"
    /\ UNCHANGED <<process, inputVars, genVars, chanVars, availableNumberOfWorker,
                   workerWG, staffWG, pcHiringManager, analystVars, spawned,
                   workerVars, matcherVars>>

\* The waiter released by the last Done resumes: Wait panics when the counter
\* was raised again in between (WaitGroup reused before Wait has returned).
WorkerWaitWake ==
    /\ Running
    /\ pcMain = "woken257"
    /\ IF workerWG # 0
       THEN process' = "panic" /\ UNCHANGED pcMain
       ELSE pcMain' = "L259" /\ UNCHANGED process
    /\ UNCHANGED <<inputVars, genVars, chanVars, availableNumberOfWorker,
                   workerWG, staffWG, pcHiringManager, analystVars, spawned,
                   workerVars, matcherVars>>

\* close(pc.getDownToWork)
CloseGetDownToWork ==
    /\ Running
    /\ pcMain = "L259"
    /\ getDownToWorkClosed' = TRUE
    /\ getDownToWorkCloses' = getDownToWorkCloses + 1
    /\ pcMain' = "L260"
    /\ UNCHANGED <<process, inputVars, genVars, getDownToWork, getDownToWorkCap,
                   statistics, statisticsCap, statisticsClosed, statisticsCloses,
                   availableNumberOfWorker, workerWG, staffWG, pcHiringManager,
                   analystVars, spawned, workerVars, matcherVars>>

\* close(pc.statistics)
CloseStatistics ==
    /\ Running
    /\ pcMain = "L260"
    /\ statisticsClosed' = TRUE
    /\ statisticsCloses' = statisticsCloses + 1
    /\ pcMain' = "L261"
    /\ UNCHANGED <<process, inputVars, genVars, getDownToWork, getDownToWorkCap,
                   getDownToWorkClosed, getDownToWorkCloses, statistics, statisticsCap,
                   availableNumberOfWorker, workerWG, staffWG, pcHiringManager,
                   analystVars, spawned, workerVars, matcherVars>>

\* pc.staffWG.Wait(), then UploadAndProcess returns
StaffWait ==
    /\ Running
    /\ pcMain = "L261"
    /\ staffWG = 0
    /\ pcMain' = "returned"
    /\ UNCHANGED <<process, inputVars, genVars, chanVars, availableNumberOfWorker,
                   workerWG, staffWG, pcHiringManager, analystVars, spawned,
                   workerVars, matcherVars>>

\* main returns after UploadAndProcess: the process ends
MainExit ==
    /\ Running
    /\ pcMain = "returned"
    /\ process' = "exited"
    /\ UNCHANGED <<pcMain, inputVars, genVars, chanVars, availableNumberOfWorker,
                   workerWG, staffWG, pcHiringManager, analystVars, spawned,
                   workerVars, matcherVars>>

\* ----------------------------------------------------------- HiringManager
\* for range pc.getDownToWork: a signal is received
HiringManagerReceive ==
    /\ Running
    /\ pcHiringManager = "range"
    /\ getDownToWork > 0
    /\ getDownToWork' = getDownToWork - 1
    /\ pcHiringManager' = "check"
    /\ UNCHANGED <<process, pcMain, inputVars, genVars, getDownToWorkCap,
                   getDownToWorkClosed, getDownToWorkCloses, statistics, statisticsCap,
                   statisticsClosed, statisticsCloses, availableNumberOfWorker,
                   workerWG, staffWG, analystVars, spawned, workerVars, matcherVars>>

\* if pc.availableNumberOfWorker > 0
HasVacancyAlways(available) == TRUE

HasVacancy(available) == available > 0

\* pc.availableNumberOfWorker--; pc.workerWG.Add(1); go pc.Worker()
HiringManagerHire ==
    /\ Running
    /\ pcHiringManager = "check"
    /\ HasVacancy(availableNumberOfWorker)
    /\ availableNumberOfWorker' = availableNumberOfWorker - 1
    /\ workerWG' = workerWG + 1
    /\ pcWorker' = Spawn(pcWorker, spawned)
    /\ spawned' = spawned + 1
    /\ pcHiringManager' = "range"
    /\ UNCHANGED <<process, pcMain, inputVars, genVars, chanVars, staffWG,
                   analystVars, URL, amount, received, sent, matcherVars>>

\* the signal is drained without hiring
HiringManagerSkip ==
    /\ Running
    /\ pcHiringManager = "check"
    /\ ~HasVacancy(availableNumberOfWorker)
    /\ pcHiringManager' = "range"
    /\ UNCHANGED <<process, pcMain, inputVars, genVars, chanVars,
                   availableNumberOfWorker, workerWG, staffWG, analystVars, spawned,
                   workerVars, matcherVars>>

\* the range loop ends on the closed, drained channel; defer pc.staffWG.Done()
HiringManagerExit ==
    /\ Running
    /\ pcHiringManager = "range"
    /\ getDownToWork = 0
    /\ getDownToWorkClosed
    /\ pcHiringManager' = "done"
    /\ staffWG' = staffWG - 1
    /\ UNCHANGED <<process, pcMain, inputVars, genVars, chanVars,
                   availableNumberOfWorker, workerWG, analystVars, spawned,
                   workerVars, matcherVars>>

\* ----------------------------------------------------------------- Analyst
\* count += stat.totalCount
AccumulateOverwrite(c, totalCount) == totalCount

Accumulate(c, totalCount) == c + totalCount

AnalystReceive ==
    /\ Running
    /\ pcAnalyst = "range"
    /\ statistics # <<>>
    /\ count' = Accumulate(count, Head(statistics))
    /\ statistics' = Tail(statistics)
    /\ UNCHANGED <<process, pcMain, inputVars, genVars, getDownToWork,
                   getDownToWorkCap, getDownToWorkClosed, getDownToWorkCloses,
                   statisticsCap, statisticsClosed, statisticsCloses,
                   availableNumberOfWorker, workerWG, staffWG, pcHiringManager,
                   pcAnalyst, totals, spawned, workerVars, matcherVars>>

\* the range loop ends; fmt.Println("Total: ", count); defer pc.staffWG.Done()
AnalystReport ==
    /\ Running
    /\ pcAnalyst = "range"
    /\ statistics = <<>>
    /\ statisticsClosed
    /\ totals' = Append(totals, count)
    /\ pcAnalyst' = "done"
    /\ staffWG' = staffWG - 1
    /\ UNCHANGED <<process, pcMain, inputVars, genVars, chanVars,
                   availableNumberOfWorker, workerWG, pcHiringManager, count,
                   spawned, workerVars, matcherVars>>

\* ------------------------------------------------------------------ Worker
\* for URL := range pc.sourceOfTasks: a task is received
WorkerReceive(w) ==
    /\ Running
    /\ pcWorker[w] = "range"
    /\ links # <<>>
    /\ URL' = [URL EXCEPT ![w] = Head(links)]
    /\ received' = [received EXCEPT ![Head(links)] = @ + 1]
    /\ links' = Tail(links)
    /\ pcWorker' = [pcWorker EXCEPT ![w] = "signal"]
    /\ UNCHANGED <<process, pcMain, inputVars, scanned, linksClosed, chanVars,
                   availableNumberOfWorker, workerWG, staffWG, pcHiringManager,
                   analystVars, spawned, amount, sent, matcherVars>>

\* range over pc.sourceOfTasks ends only on a closed and drained channel
SourceExhaustedEmptyOnly(ch, closed) == ch = <<>>

SourceExhausted(ch, closed) == ch = <<>> /\ closed

\* the range loop ends; defer pc.workerWG.Done(): the Done that brings the
\* counter to zero releases the sleeping waiter
WorkerExit(w) ==
    /\ Running
    /\ pcWorker[w] = "range"
    /\ SourceExhausted(links, linksClosed)
    /\ pcWorker' = [pcWorker EXCEPT ![w] = "done"]
    /\ workerWG' = workerWG - 1
    /\ pcMain' = IF workerWG - 1 = 0 /\ pcMain = "asleep257" THEN "woken257" ELSE pcMain
    /\ UNCHANGED <<process, inputVars, genVars, chanVars, availableNumberOfWorker,
                   staffWG, pcHiringManager, analystVars, spawned, URL, amount,
                   received, sent, matcherVars>>

\* one signal is sent for one claimed task
AfterSendTwice(signals) == signals + 2

AfterSend(signals) == signals + 1

\* pc.getDownToWork <- struct{}{} (a send on a closed channel panics)
WorkerSignal(w) ==
    /\ Running
    /\ pcWorker[w] = "signal"
    /\ IF getDownToWorkClosed
       THEN /\ process' = "panic"
            /\ UNCHANGED <<getDownToWork, pcWorker>>
       ELSE /\ getDownToWork < getDownToWorkCap
            /\ getDownToWork' = AfterSend(getDownToWork)
            /\ pcWorker' = [pcWorker EXCEPT ![w] = "fetch"]
            /\ UNCHANGED process
    /\ UNCHANGED <<pcMain, inputVars, genVars, getDownToWorkCap, getDownToWorkClosed,
                   getDownToWorkCloses, statistics, statisticsCap, statisticsClosed,
                   statisticsCloses, availableNumberOfWorker, workerWG, staffWG,
                   pcHiringManager, analystVars, spawned, URL, amount, received,
                   sent, matcherVars>>

\* return from the func() literal on an error: the for loop takes the next task
AfterFailureQuit == "quit"

AfterFailure == "range"

\* resp, err := pc.httpClient.Get(URL); on err the task is dropped
WorkerFetch(w) ==
    /\ Running
    /\ pcWorker[w] = "fetch"
    /\ pcWorker' = [pcWorker EXCEPT ![w] = IF web[URL[w]].fetchErr THEN AfterFailure ELSE "search"]
    /\ UNCHANGED <<process, pcMain, inputVars, genVars, chanVars,
                   availableNumberOfWorker, workerWG, staffWG, pcHiringManager,
                   analystVars, spawned, URL, amount, received, sent, matcherVars>>

\* if err != nil { ...; return } after pc.searchStrategy
SearchFailedIgnored(result) == FALSE

SearchFailed(result) == result.err

\* amount, err := pc.searchStrategy(resp.Body, pc.neededWord); on err the task is dropped
WorkerSearch(w) ==
    /\ Running
    /\ pcWorker[w] = "search"
    /\ LET result == searchStrategy[web[URL[w]]]
       IN  /\ amount' = [amount EXCEPT ![w] = result.amount]
           /\ pcWorker' = [pcWorker EXCEPT ![w] = IF SearchFailed(result) THEN AfterFailure ELSE "send"]
    /\ UNCHANGED <<process, pcMain, inputVars, genVars, chanVars,
                   availableNumberOfWorker, workerWG, staffWG, pcHiringManager,
                   analystVars, spawned, URL, received, sent, matcherVars>>

\* pc.statistics <- statistics{totalCount: amount} (a send on a closed channel panics)
WorkerSend(w) ==
    /\ Running
    /\ pcWorker[w] = "send"
    /\ IF statisticsClosed
       THEN /\ process' = "panic"
            /\ UNCHANGED <<statistics, sent, pcWorker>>
       ELSE /\ Len(statistics) < statisticsCap
            /\ statistics' = Append(statistics, amount[w])
            /\ sent' = Append(sent, amount[w])
            /\ pcWorker' = [pcWorker EXCEPT ![w] = "range"]
            /\ UNCHANGED process
    /\ UNCHANGED <<pcMain, inputVars, genVars, getDownToWork, getDownToWorkCap,
                   getDownToWorkClosed, getDownToWorkCloses, statisticsCap,
                   statisticsClosed, statisticsCloses, availableNumberOfWorker,
                   workerWG, staffWG, pcHiringManager, analystVars, spawned, URL,
                   amount, received, matcherVars>>

Next ==
    \/ URLGeneratorSend
    \/ URLGeneratorClose
    \/ NewController
    \/ StartHiringManager
    \/ StartAnalyst
    \/ StartWorker
    \/ WorkerWait
    \/ WorkerWaitWake
    \/ CloseGetDownToWork
    \/ CloseStatistics
    \/ StaffWait
    \/ MainExit
    \/ HiringManagerReceive
    \/ HiringManagerHire
    \/ HiringManagerSkip
    \/ HiringManagerExit
    \/ AnalystReceive
    \/ AnalystReport
    \/ \E w \in WorkerIds : WorkerReceive(w)
    \/ \E w \in WorkerIds : WorkerExit(w)
    \/ \E w \in WorkerIds : WorkerSignal(w)
    \/ \E w \in WorkerIds : WorkerFetch(w)
    \/ \E w \in WorkerIds : WorkerSearch(w)
    \/ \E w \in WorkerIds : WorkerSend(w)

Spec == Init /\ [][Next]_vars

\* The same program on inputs longer than the links buffer and than the
\* getDownToWork buffer of a small pool; the web answers with a failure or
\* with the body "go".
LongSourceInit ==
    /\ PoolStart(1..MaxLongK, 0..MaxLongTasks, {RespFail, RespGo})
    /\ MatcherIdle

LongSourceSpec == LongSourceInit /\ [][Next]_vars

TypeOK ==
    /\ process \in {"running", "fatal", "panic", "exited"}
    /\ spawned \in 0..(MaxK + 1)
    /\ workerWG \in 0..(MaxK + 1)
    /\ staffWG \in 0..2
    /\ availableNumberOfWorker \in 0..MaxK

\* ====================================================== streaming matcher
\* The pool is not running while the matcher is exercised on its own.
PoolIdle ==
    /\ PoolInit
    /\ maxNumberOfWorker = 0
    /\ lines = 0

Words == SeqsUpTo(Bytes, MaxWordLen) \ {<<>>}

NoNUL(s) == \A i \in 1..Len(s) : s[i] # NUL

\* A content, a word, a buffer size and one way the reader delivers the
\* content.  The word is one the -q flag can carry (no NUL byte), or one that
\* only a direct caller of StreamEntranceCount can pass.
MatcherInit ==
    /\ \/ desiredWord \in {w \in Words : NoNUL(w)}
       \/ desiredWord \in {w \in Words : ~NoNUL(w)}
    /\ content \in SeqsUpTo(Bytes, MaxContentLen)
    /\ PoolIdle
    /\ buffSize \in 1..MaxBuffSize
    /\ script \in Scripts(buffSize, Len(content), MaxIdleReads)
    /\ streamResult = NoResult
    /\ wholeResult = NoResult

Returned(result) == [amount |-> result.amount, err |-> result.err, called |-> TRUE]

\* StreamSearcherBuffSize = buffSize; StreamEntranceCount(source, desiredWord)
CallStreamEntranceCount ==
    /\ ~streamResult.called
    /\ streamResult' = Returned(StreamEntranceCount(content, script, desiredWord, buffSize))
    /\ UNCHANGED <<poolVars, content, script, desiredWord, buffSize, wholeResult>>

\* EntranceCount(source, desiredWord)
CallEntranceCount ==
    /\ ~wholeResult.called
    /\ wholeResult' = Returned(EntranceCount(content, script, desiredWord))
    /\ UNCHANGED <<poolVars, content, script, desiredWord, buffSize, streamResult>>

MatcherNext == CallStreamEntranceCount \/ CallEntranceCount

MatcherSpec == MatcherInit /\ [][MatcherNext]_vars

\* ------------------------------------------------- matcher: claim helpers
\* The reader that delivers the whole content in one Read.
OneRead(c) == <<[n |-> Len(c), err |-> EOF]>>

InOneRead(c, word) ==
    StreamEntranceCount(c, OneRead(c), word, IF Len(c) = 0 THEN 1 ELSE Len(c))

ReadToEnd == script[Len(script)].err = EOF

\* Positions at which c matches the word or its title-case variant.
MatchPositions(c, word) ==
    {i \in 1..Len(c) : HasPrefixAt(c, i, word) \/ HasPrefixAt(c, i, Title(word))}

NonOverlapping(c, word) ==
    \A i, j \in MatchPositions(c, word) : i < j => j - i >= Len(word)

\* ============================================================ pool claims
\* C1: every task of the source is received by at most one Worker, and by the
\* time UploadAndProcess returns every line of the input has been put on the
\* task channel and received by exactly one Worker.
C1_EachTaskExactlyOnce ==
    /\ \A u \in 1..lines : received[u] <= 1
    /\ pcMain = "returned" =>
          /\ scanned = lines
          /\ \A u \in 1..lines : received[u] = 1

\* UploadAndProcess has returned after several Workers shared several tasks.
C1_Witness ==
    /\ pcMain = "returned"
    /\ lines >= 2
    /\ \E v, w \in 1..spawned : v # w /\ URL[v] # 0 /\ URL[w] # 0

\* C2: the number of Workers ever spawned never exceeds maxNumberOfWorker.
C2_SpawnedAtMostMax == spawned <= maxNumberOfWorker

\* The pool is at its cap and HiringManager is handling one more signal.
C2_Witness ==
    /\ maxNumberOfWorker >= 2
    /\ spawned = maxNumberOfWorker
    /\ pcHiringManager = "check"

\* C3: when UploadAndProcess returns every Worker ever spawned has finished.
C3_AllWorkersFinishedAtReturn ==
    pcMain = "returned" => \A w \in 1..spawned : pcWorker[w] = "done"

\* workerWG.Wait() has seen the counter at zero (at once, or by being released)
WaitObservedZero == pcMain \in {"woken257", "L259", "L260", "L261", "returned"}

\* C4: once workerWG.Wait() has observed the worker count at zero,
\* HiringManager registers and starts no further Worker.
C4_NoHireAfterWaitObservedZero ==
    [][WaitObservedZero => /\ spawned' = spawned
                           /\ (workerWG = 0 => workerWG' = 0)]_vars

\* Sum of a sequence of counts
RECURSIVE SumSeq(_)
SumSeq(q) == IF q = <<>> THEN 0 ELSE Head(q) + SumSeq(Tail(q))

\* The task for URL u is fetched and scanned to the end of its body.
Succeeds(u) == ~web[u].fetchErr /\ ~searchStrategy[web[u]].err

RECURSIVE SumOfSuccessful(_)
SumOfSuccessful(n) ==
    IF n = 0 THEN 0
    ELSE (IF Succeeds(n) THEN searchStrategy[web[n]].amount ELSE 0) + SumOfSuccessful(n - 1)

\* C5: the total is printed at most once; when printed it is the sum of the
\* counts of the tasks that succeeded, every record sent has been added and
\* none is left in the channel; it has been printed when UploadAndProcess
\* returns.
C5_TotalIsSumOfSuccessful ==
    /\ Len(totals) <= 1
    /\ Len(totals) = 1 =>
          /\ totals[1] = SumOfSuccessful(lines)
          /\ totals[1] = SumSeq(sent)
          /\ statistics = <<>>
    /\ pcMain = "returned" => Len(totals) = 1

\* A total made of two records is reported, or one next to a failed task.
C5_Witness ==
    /\ pcMain = "returned"
    /\ Len(totals) = 1
    /\ \/ (Len(sent) = 2 /\ totals[1] = 3)
       \/ (Len(sent) = 1 /\ totals[1] = 2 /\ \E u \in 1..lines : web[u] = RespBroken)

\* C10: with a cap of at least 1, no state before the return of
\* UploadAndProcess is one in which nothing can happen any more.
C10_NoDeadlockBeforeReturn ==
    (maxNumberOfWorker >= 1 /\ pcMain # "returned") => ENABLED Next

\* ========================================================= matcher claims
\* C6: for every content, word and way the reader splits the content, the
\* count of StreamEntranceCount equals the count when the whole content is
\* delivered in one read, and equals the count EntranceCount returns.
C6_ChunkSizeIndependent ==
    (ReadToEnd /\ streamResult.called /\ wholeResult.called) =>
        /\ ~streamResult.err
        /\ streamResult.amount = InOneRead(content, desiredWord).amount
        /\ streamResult.amount = wholeResult.amount

\* C7: for content whose occurrences of the word do not overlap one another,
\* the count of StreamEntranceCount does not depend on where the read
\* boundaries fall: every occurrence is counted as when it lies in one read.
C7_BoundariesDoNotMatter ==
    (ReadToEnd /\ streamResult.called /\ NonOverlapping(content, desiredWord)) =>
        streamResult.amount = InOneRead(content, desiredWord).amount

\* C8: for content whose matches do not overlap, the count equals the number
\* of positions at which the content matches the word or its title-case
\* variant, each position contributing exactly 1.
C8_OnePerMatchPosition ==
    (ReadToEnd /\ streamResult.called /\ NonOverlapping(content, desiredWord)) =>
        streamResult.amount = Cardinality(MatchPositions(content, desiredWord))

\* C9: on an empty stream or a stream shorter than wordLength-1 bytes,
\* StreamEntranceCount returns count 0 and no error, for every word.
C9_ShortStreamCountsZero ==
    (ReadToEnd /\ streamResult.called /\ Len(content) < Len(desiredWord) - 1) =>
        /\ streamResult.amount = 0
        /\ ~streamResult.err

\* =================================================== pool claims, continued
\* C11: whenever a Worker is about to send on getDownToWork, the channel
\* holds fewer signals than its capacity, so the send does not block.
C11_SignalNeverBlocks ==
    \A w \in WorkerIds :
        (pcWorker[w] = "signal" /\ ~getDownToWorkClosed) => getDownToWork < getDownToWorkCap

\* A Worker is busy with a task it has claimed.
Busy(w) == pcWorker[w] \in {"signal", "fetch", "search", "send"}

\* C12: a Worker that has claimed a task goes on to the range loop or to the
\* next step of the task, whatever the task's outcome, and it finishes only
\* from the range loop, on the closed and drained task channel, calling
\* workerWG.Done.
C12_FailureNeverEndsWorker ==
    [][\A w \in WorkerIds :
          /\ (Busy(w) /\ pcWorker'[w] # pcWorker[w]) =>
                pcWorker'[w] \in {"range", "fetch", "search", "send"}
          /\ ((pcWorker[w] \in {"fetch", "search"} /\ pcWorker'[w] # pcWorker[w]
                 /\ ~Succeeds(URL[w])) =>
                pcWorker'[w] \in {"range", "search"})
          /\ (pcWorker[w] # "done" /\ pcWorker'[w] = "done") =>
                /\ pcWorker[w] = "range"
                /\ links = <<>>
                /\ linksClosed
                /\ workerWG' = workerWG - 1]_vars

\* The only Worker of the pool has had a task fail (a failed fetch or a
\* failed read) and has claimed the next task.
C12_Witness ==
    /\ maxNumberOfWorker = 1
    /\ lines >= 2
    /\ web[1] \in {RespFail, RespBroken}
    /\ URL[1] = 2
    /\ pcWorker[1] = "fetch"

\* The task for URL u has been claimed and its Worker is through with it.
Completed(u) ==
    /\ received[u] >= 1
    /\ \A w \in WorkerIds : ~(Busy(w) /\ URL[w] = u)

\* What the task for URL u has sent so far: its count once it is worked through,
\* fetched and read to the end without error, and nothing otherwise.
RecordsOf(u) ==
    IF ~Completed(u) \/ web[u].fetchErr THEN <<>>
    ELSE LET result == searchStrategy[web[u]]
         IN  IF result.err THEN <<>> ELSE <<result.amount>>

RECURSIVE RecordsUpTo(_)
RecordsUpTo(n) == IF n = 0 THEN <<>> ELSE RecordsUpTo(n - 1) \o RecordsOf(n)

\* C13: the ResultRecords sent are as many as the tasks worked through whose
\* fetch succeeded and whose body was read to the end without error, and they
\* carry the counts of these tasks only: a failed fetch or a failed read sends
\* nothing, the partial count of a failed read included.
C13_OneRecordPerSuccessfulTask ==
    LET due == RecordsUpTo(lines)
    IN  /\ Len(sent) = Len(due)
        /\ SumSeq(sent) = SumSeq(due)

\* A read has failed after a match was counted, its Worker has dropped the
\* task, and another task has sent its record.
C13_Witness ==
    /\ \E w \in WorkerIds :
          /\ URL[w] # 0
          /\ web[URL[w]] = RespBroken
          /\ amount[w] = 1
          /\ pcWorker[w] \in {"range", "done"}
    /\ Len(sent) = 1

\* C14: with maxNumberOfWorker = 0 NewController fails and nothing of the pool
\* is ever started; with maxNumberOfWorker >= 1 it succeeds and the controller
\* starts with availableNumberOfWorker = maxNumberOfWorker - 1.
C14_NewControllerChecksMax ==
    /\ maxNumberOfWorker = 0 =>
          /\ pcMain = "NewController"
          /\ pcHiringManager = "idle"
          /\ pcAnalyst = "idle"
          /\ spawned = 0
          /\ \A w \in WorkerIds : pcWorker[w] = "idle"
    /\ (maxNumberOfWorker >= 1 /\ pcMain # "NewController") => process # "fatal"
    /\ (maxNumberOfWorker >= 1 /\ pcMain = "L248") =>
          availableNumberOfWorker = maxNumberOfWorker - 1

\* NewController has refused a cap of 0 and main has ended with log.Fatal.
C14_Witness ==
    /\ maxNumberOfWorker = 0
    /\ process = "fatal"

\* Number of tasks Workers have claimed so far
RECURSIVE ClaimedUpTo(_)
ClaimedUpTo(n) == IF n = 0 THEN 0 ELSE received[n] + ClaimedUpTo(n - 1)

Claimed == ClaimedUpTo(lines)

\* C15: the Workers ever spawned are at most the tasks claimed so far plus one.
C15_AtMostOneSpareWorker == spawned <= Claimed + 1

\* Below the cap, a Worker has been hired for every claimed task: one spare.
C15_Witness ==
    /\ spawned >= 2
    /\ spawned < maxNumberOfWorker
    /\ spawned = Claimed + 1

Min(a, b) == IF a < b THEN a ELSE b

\* C17: when HiringManager has terminated, no signal is left in the channel,
\* one signal was handled for each of the n tasks, and the Workers spawned
\* are 1 + min(n, k - 1): k when n >= k, n + 1 when n < k.
C17_HiredMinOfTasksAndCap ==
    pcHiringManager = "done" =>
        /\ getDownToWork = 0
        /\ Claimed = lines
        /\ spawned = 1 + Min(lines, maxNumberOfWorker - 1)
        /\ availableNumberOfWorker = maxNumberOfWorker - spawned

\* HiringManager has terminated with fewer tasks than the cap allows Workers.
C17_Witness ==
    /\ pcHiringManager = "done"
    /\ lines >= 1
    /\ spawned = lines + 1
    /\ spawned < maxNumberOfWorker

\* C18: once getDownToWork or statistics is closed, the task channel is closed
\* and empty and no Worker holds a task, so no Worker sends on a closed
\* channel; the only panic is the one of workerWG.Wait.
C18_NoSendAfterClose ==
    /\ (getDownToWorkClosed \/ statisticsClosed) =>
          /\ linksClosed
          /\ links = <<>>
          /\ \A w \in WorkerIds : ~Busy(w)
    /\ process = "panic" => (pcMain = "woken257" /\ ~getDownToWorkClosed)

\* A Worker hired after the channels were closed is at its range loop.
C18_Witness ==
    /\ getDownToWorkClosed
    /\ statisticsClosed
    /\ \E w \in WorkerIds : pcWorker[w] = "range" /\ URL[w] = 0

\* NewController has returned the controller.
ControllerExists == pcMain # "NewController"

====
